---- MODULE Spec2Model ----
(***************************************************************************)
(* Model of the Graph API client of teams-export                          *)
(* (src/src/teams_export/graph.py): one run of GraphClient._paginate,     *)
(* with every HTTP GET going through GraphClient._request_with_retry.     *)
(*                                                                         *)
(* The server is the environment: for every GET it chooses a transport    *)
(* exception, or a response (status, Retry-After header, body).           *)
(* Durations are in whole seconds.  An Optional value is <<>> (None) or   *)
(* <<v>>.                                                                  *)
(***************************************************************************)
EXTENDS Integers, Sequences, FiniteSets, TLC

\* ------------------------------------------------------------------ bounds
MaxPages   == 2      \* longest chain of pages the server holds
MaxPageLen == 2      \* longest `value` array of one page
MaxItems   == 3      \* largest max_items argument tried
MaxFaults  == 4      \* GETs not answered with 200, in the runs of InitFaults
MaxMessages == 2     \* longest list of messages a chat holds on the server
MaxChats == 4        \* most chats selected for one multi-chat export
MaxCacheOps == 5     \* most calls and clock steps made on one ChatCache
MaxDay == 3          \* last day of January 2025 a window or a message can name
MaxReloads == 2      \* most reloads of the chat list asked for in a menu

\* ------------------------------------------------------- program constants
MAX_RETRIES_five == 4 + 1
MAX_RETRIES == 4

INITIAL_RETRY_DELAY == 2

None == <<>>
Some(v) == <<v>>

\* ------------------------------------------------------------- environment
\* Retry-After header of a response: absent, the empty string, a text that
\* is not an integer (an HTTP-date), or the decimal text of a second count.
NoHeader    == [kind |-> "absent", n |-> 0]
EmptyHeader == [kind |-> "empty",  n |-> 0]
TextHeader  == [kind |-> "text",   n |-> 0]
IntHeader(n) == [kind |-> "int", n |-> n]
RetryAfterSeconds == {0, 5}
Headers == {NoHeader, EmptyHeader, TextHeader} \cup {IntHeader(n) : n \in RetryAfterSeconds}

\* Bodies of error responses.  `text` is the raw body; for a JSON body `shape`
\* tells what the parsed document looks like.
\*   nonjson          not JSON at all
\*   envelope         {"error": {"code": code, "message": message}}
\*   envelope_nocode  {"error": {"message": message}}
\*   noerror          a JSON object without an "error" member
\*   errstring        {"error": "<err>"}
NoBody == [shape |-> "none", text |-> "", code |-> "", message |-> "", err |-> ""]
ErrorBodies ==
    { [shape |-> "nonjson", text |-> "Bad Gateway", code |-> "", message |-> "", err |-> ""],
      [shape |-> "envelope", text |-> "{error:{code:Forbidden,message:denied}}",
       code |-> "Forbidden", message |-> "denied", err |-> ""],
      [shape |-> "envelope_nocode", text |-> "{error:{message:denied}}",
       code |-> "", message |-> "denied", err |-> ""],
      [shape |-> "noerror", text |-> "{message:denied}", code |-> "", message |-> "", err |-> ""],
      [shape |-> "errstring", text |-> "{error:denied}", code |-> "", message |-> "", err |-> "denied"] }

ServerErrorStatuses == {503}
ClientErrorStatuses == {400, 404}
ExceptionMessages == {"timed out", "connection reset"}

\* str(n) as the f-strings produce it, for the numbers the model formats
IntText(n) ==
    CASE n = 4   -> "4"
      [] n = 5   -> "5"
      [] n = 200 -> "200"
      [] n = 400 -> "400"
      [] n = 404 -> "404"
      [] n = 429 -> "429"
      [] n = 503 -> "503"
      [] OTHER   -> "?"

\* What one GET ends in.
ExceptionOutcome(m) == [kind |-> "exc", status |-> 0, retry_after |-> NoHeader, msg |-> m]
ResponseOutcome(s, h) == [kind |-> "resp", status |-> s, retry_after |-> h, msg |-> ""]
NoResp == ResponseOutcome(0, NoHeader)

\* Outcomes the server may choose for a GET.  The body of an error response
\* is read only by _format_error, so the model draws it there.
Outcomes ==
    {ExceptionOutcome(m) : m \in ExceptionMessages}
    \cup {ResponseOutcome(429, h) : h \in Headers}
    \cup {ResponseOutcome(s, NoHeader) : s \in ServerErrorStatuses \cup ClientErrorStatuses}
    \cup {ResponseOutcome(200, NoHeader)}

IsOk(o) == o.kind = "resp" /\ o.status = 200

\* --------------------------------------------------------------- variables
VARIABLES
    pages,            \* the server's chain of pages: pages[i] is the `value`
                      \* array of page i, a sequence of flags (does the
                      \* stop-condition hold of the record)
    faultsLeft,       \* GETs the server may still answer with something else than 200
    stop_condition,   \* _paginate argument: is a stop_condition given
    max_items,        \* _paginate argument: None or Some(n)
    progress_callback,\* _paginate argument: is a progress_callback given
    url,              \* _paginate local: None or Some(page number)
    params,           \* _paginate local: None or Some("query")
    count,            \* _paginate local
    idx,              \* position of the for-loop in payload["value"]
    pc,               \* "loop", "request", "returned", "items", "done", "raised"
    attempt,          \* _request_with_retry local: loop index
    last_exception,   \* _request_with_retry local: None or Some(message)
    resp,             \* the response last received
    body,             \* the body _format_error read from resp, or NoBody
    hist,             \* outcomes of the GETs of the current call, in order
    sleeps,           \* time.sleep durations of the current call, in order
    requests,         \* every GET of the run: [url, params]
    yielded,          \* records yielded by the generator, in order
    progressCalls,    \* arguments of the progress_callback calls, in order
    error             \* the exception that ended the run, or NoError

vars == <<pages, faultsLeft, stop_condition, max_items, progress_callback, url, params,
          count, idx, pc, attempt, last_exception, resp, body, hist, sleeps, requests,
          yielded, progressCalls, error>>

argVars == <<pages, stop_condition, max_items, progress_callback>>

\* State of one export_chat call (exporter.py).
VARIABLES
    chat_has_id,           \* argument chat: whether chat.get("id") is truthy
    output_format,         \* argument output_format
    download_attachments,  \* argument download_attachments
    chat_messages,         \* the chat's messages on the server, in API order
    earlier_files,         \* files in the attachments directory before the call
    xpc,                   \* "idle", "start", "fetch", "filter", "enter_download",
                           \* "download", "write", "done", "raised"
    fetched,               \* list_chat_messages: items the list() call holds
    page_gets,             \* page requests list_chat_messages has issued
    raw_messages,          \* export_chat local
    messages,              \* export_chat local: filtered, sorted, transformed
    dirs,                  \* directories created so far
    unique_url_tuples,     \* _download_attachments local
    dl_idx,                \* _download_attachments: position of the for-loop
    url_mapping,           \* _download_attachments local / export_chat local
    attFiles,              \* files in the attachments directory
    downloads,             \* every session.get of _download_attachment: URL, success
    output,                \* the output file: None or Some(what was written)
    xerror                 \* the exception that ended export_chat, or ""

exportVars == <<chat_has_id, output_format, download_attachments, chat_messages,
                earlier_files, xpc, fetched, page_gets, raw_messages, messages,
                dirs, unique_url_tuples, dl_idx,
                url_mapping, attFiles, downloads, output, xerror>>

exportArgs == <<chat_has_id, output_format, download_attachments, chat_messages,
                earlier_files>>

\* State of the multi-chat branch of main (cli.py) and of its worker pool.
VARIABLES
    selected_chats,   \* main local: the chats to export
    mpc,              \* main: "idle", "submit", "collect", "after"
    tpc,              \* per chat, its export_single_chat task: "none", "queued",
                      \* "fetch", "download", "rename", "write", "finished"
    final_path,       \* per task, _download_attachments local final_path
    fs,               \* per path of the output directory: the chat whose
                      \* content the file holds, or 0 when there is no file
    results,          \* per chat, the tuple its future returned, or None
    collected,        \* futures the as_completed loop has taken
    completed,        \* main local
    exports,          \* main local: chats appended to exports
    failed            \* chats reported as "Failed"

poolVars == <<selected_chats, mpc, tpc, final_path, fs, results, collected,
              completed, exports, failed>>

\* State of a ChatCache (cache.py) and of the clock it reads.
VARIABLES
    cache_file,       \* what chats_cache.json holds, or that it is missing
    now,              \* time.time()
    cache_result,     \* what the last call did, when it was a get
    last_set,         \* the most recent set not followed by a clear: None or
                      \* Some([user_id, chats, at])
    io_failed,        \* a read, write or unlink of the cache file has failed
    cache_ops         \* calls made so far

cacheVars == <<cache_file, now, cache_result, last_set, io_failed, cache_ops>>

\* State of one raw message record on its way through _transform_message,
\* _extract_attachment_urls and a writer.
VARIABLES
    record,           \* which members the raw record has: absent, null, present
    record_format,    \* fmt, after normalisation
    record_download,  \* download_attachments
    rpc,              \* "transform", "extract", "render", "written", "raised"
    normalized,       \* the message _transform_message returned, or None
    record_urls,      \* what _extract_attachment_urls returned
    record_error      \* the exception raised, "" if none

transformVars ==
    <<record, record_format, record_download, rpc, normalized, record_urls,
      record_error>>

\* State of one export as far as its window and its file name go:
\* resolve_range (dates.py), then the naming and the filter of export_chat.
VARIABLES
    identifier,       \* the chat's title, a sequence of characters
    start_value,      \* --from, a day of January 2025
    end_value,        \* --to, a day of January 2025
    format_value,     \* --format
    chat_instants,    \* the timestamps of the chat's messages
    npc,              \* "resolve", "name", "filter", "written", "raised"
    window,           \* <<start_dt, end_dt>> of resolve_range, or None
    output_name,      \* the name of output_path, or None
    exported_instants,\* the timestamps of the messages written
    naming_error      \* the exception raised, "" if none

namingVars ==
    <<identifier, start_value, end_value, format_value, chat_instants, npc,
      window, output_name, exported_instants, naming_error>>

\* State of main (cli.py) from the loaded chat list to the end of the run.
VARIABLES
    loaded_chats,     \* chats: the loaded chat list
    mode,             \* "all" (--all), "search" (--user/--chat), "menu"
    chat_name,        \* --chat
    format_supported, \* export_chat knows --format
    main_pc,          \* "select", "matches", "export", "done", "exit", "crashed"
    chosen,           \* selected_chats
    pending,          \* chosen chats not yet exported
    attempts,         \* the calls of export_chat: [chat, outcome]
    echoed,           \* the lines written to the terminal: [kind, title, error]
    unhandled,        \* the exception that left main, "" if none
    exit_code,        \* typer.Exit(code), -1 if none
    reloads           \* reloads of the chat list asked for in a menu

mainVars ==
    <<loaded_chats, mode, chat_name, format_supported, main_pc, chosen, pending,
      attempts, echoed, unhandled, exit_code, reloads>>

\* The variables each component leaves alone.
outsideGraph == <<exportVars, poolVars, cacheVars, transformVars, namingVars, mainVars>>
outsideExport == <<vars, poolVars, cacheVars, transformVars, namingVars, mainVars>>
outsidePool == <<vars, exportVars, cacheVars, transformVars, namingVars, mainVars>>
outsideCache == <<vars, exportVars, poolVars, transformVars, namingVars, mainVars>>
outsideTransform == <<vars, exportVars, poolVars, cacheVars, namingVars, mainVars>>
outsideNaming == <<vars, exportVars, poolVars, cacheVars, transformVars, mainVars>>
outsideMain == <<vars, exportVars, poolVars, cacheVars, transformVars, namingVars>>
allVars == <<vars, exportVars, poolVars, cacheVars, transformVars, namingVars, mainVars>>

\* ------------------------------------------------- exporter: values
\* A timestamp field of a Graph message: missing (or null or ""), a text
\* isoparse rejects, an ISO text without UTC offset, or an ISO text with one.
Absent == [kind |-> "absent", t |-> 0]
Unparseable == [kind |-> "bad", t |-> 0]
Naive(t) == [kind |-> "naive", t |-> t]
Utc(t) == [kind |-> "utc", t |-> t]

\* export_chat arguments start_dt and end_dt (timezone-aware), as instants.
start_dt == 1
end_dt == 2

Instants == 0 .. end_dt + 1
TimestampValues ==
    {Absent, Unparseable, Naive(start_dt)} \cup {Utc(t) : t \in Instants}

\* python: a or b
Or(a, b) == IF a # Absent THEN a ELSE b

\* The URLs a message can reference: a path ending in a file name, a path
\* ending in "/", and a reference that is not an http URL.
UrlNamed == "https://h/a.png"
UrlBare == "https://h/dl/"
UrlCid == "cid:inline"
Urls == {UrlNamed, UrlBare, UrlCid}

\* url.startswith("http")
StartsWithHttp(u) == u \in {UrlNamed, UrlBare}

\* A file name in the attachments directory: base text (with the loop index
\* when the name is generated), collision counter (0: none) and extension.
FileName(b, i, c, e) == [base |-> b, idx |-> i, counter |-> c, extension |-> e]
NoFile == FileName("", 0, 0, "")

\* url_mapping = {}
EmptyMapping == [u \in Urls |-> NoFile]

\* No export_chat call is running.
ExportIdle ==
    /\ chat_has_id = FALSE
    /\ output_format = "json"
    /\ download_attachments = FALSE
    /\ chat_messages = <<>>
    /\ earlier_files = {}
    /\ xpc = "idle"
    /\ fetched = <<>>
    /\ page_gets = 0
    /\ raw_messages = <<>>
    /\ messages = <<>>
    /\ dirs = {}
    /\ unique_url_tuples = <<>>
    /\ dl_idx = 0
    /\ url_mapping = EmptyMapping
    /\ attFiles = {}
    /\ downloads = <<>>
    /\ output = None
    /\ xerror = ""

\* ------------------------------------------------- chat cache: values
CACHE_TTL_SECONDS_hour == 60 * 60
CACHE_TTL_SECONDS == 86400

\* A member of the JSON object in the cache file: absent, a number, a text,
\* or a list.
NoMember == [kind |-> "absent", n |-> 0, items |-> <<>>]
NumberMember(n) == [kind |-> "number", n |-> n, items |-> <<>>]
TextMember == [kind |-> "text", n |-> 0, items |-> <<>>]
ListMember(c) == [kind |-> "list", n |-> 0, items |-> c]

\* What the cache file can be: missing; present but not readable (open
\* raises OSError); bytes that are not UTF-8; text that is not JSON; JSON
\* whose top level is a list; or a JSON object.
FileOfKind(k) ==
    [kind |-> k, user_id |-> "", timestamp |-> NoMember, chats |-> NoMember]
FileObject(u, t, c) ==
    [kind |-> "object", user_id |-> u, timestamp |-> t, chats |-> c]
NoFileYet == FileOfKind("missing")

\* The chat lists a caller can pass to set.
ChatListValues == {<<>>, <<"chat1">>, <<"chat1", "chat2">>}
UserIds == {"me", "other"}

\* The seconds that pass between two calls.
TickSteps == {1, CACHE_TTL_SECONDS - 1}

\* cache.get has not been the last call.
NoCall ==
    [op |-> "", user_id |-> "", at |-> 0, kind |-> "", chats |-> NoMember,
     error |-> ""]

\* No ChatCache is in use.
CacheIdle ==
    /\ cache_file = NoFileYet
    /\ now = 0
    /\ cache_result = NoCall
    /\ last_set = None
    /\ io_failed = FALSE
    /\ cache_ops = 0

\* ------------------------------------------------- message records: values
\* A member of a raw record is absent, null, or present with a value.
Members == {"absent", "null", "present"}

\* The writers a record is rendered by.
RecordFormats == {"json", "csv", "jira", "html"}

NoRecord == [from |-> "absent", user |-> "absent", body |-> "absent",
             attachments |-> "absent"]

\* No record is being transformed.
TransformIdle ==
    /\ record = NoRecord
    /\ record_format = ""
    /\ record_download = FALSE
    /\ rpc = "idle"
    /\ normalized = None
    /\ record_urls = <<>>
    /\ record_error = ""

\* ------------------------------------------------- file names: values
\* Instants are seconds since 2025-01-01T00:00:00Z; days are days of
\* January 2025.
SecondsPerDay == 24 * 60 * 60
Instant(day, second) == (day - 1) * SecondsPerDay + second
DateOf(instant) == [year |-> 2025, month |-> 1, day |-> instant \div SecondsPerDay + 1]

\* The titles a chat can have.
TeamSync == <<"T", "e", "a", "m", " ", "S", "y", "n", "c">>
ChatTitles == {TeamSync, <<" ", "Q", "&", "A", "!">>, <<"*", "*">>}

\* --format values.
FormatValues == {"json", "csv", "markdown", "jira", "html"}

\* No export is being named.
NamingIdle ==
    /\ identifier = <<>>
    /\ start_value = 0
    /\ end_value = 0
    /\ format_value = ""
    /\ chat_instants = {}
    /\ npc = "idle"
    /\ window = None
    /\ output_name = None
    /\ exported_instants = {}
    /\ naming_error = ""

\* ------------------------------------------------- main: values
\* A chat of the loaded list, and the marker select_chat_interactive returns
\* for 'c': {"__action__": "refresh_cache"}.
Chat(id, title) == [id |-> id, title |-> title, action |-> ""]
RefreshMarker == [id |-> "", title |-> "", action |-> "refresh_cache"]

\* The chats the server can list: two with the same topic, one more, and one
\* without an id.
ServerChats ==
    {Chat("19:a", "Team"), Chat("19:b", "Team"), Chat("19:c", "Ops"),
     Chat("", "Old")}
ChatNames == {"Team", "Ops", "Nobody"}

\* main is not running.
MainIdle ==
    /\ loaded_chats = {}
    /\ mode = ""
    /\ chat_name = ""
    /\ format_supported = TRUE
    /\ main_pc = "idle"
    /\ chosen = {}
    /\ pending = {}
    /\ attempts = {}
    /\ echoed = {}
    /\ unhandled = ""
    /\ exit_code = -1
    /\ reloads = 0

\* ------------------------------------------------- worker pool: values
\* ThreadPoolExecutor(max_workers=3)
max_workers_four == 3 + 1
max_workers == 3

\* The titles of the chats a user can select.
Titles == {"Team A", "team a", "Ops"}

\* _normalise_filename: runs of characters outside [a-zA-Z0-9_-] become "_",
\* lower case, "_" stripped at both ends.
normalise_filename(title) ==
    CASE title = "Team A" -> "team_a"
      [] title = "team a" -> "team_a"
      [] OTHER -> "ops"

Stems == {normalise_filename(t) : t \in Titles}

\* A path under output_dir: the output file of a stem, or a file of its
\* attachments directory (the temporary file, or the final file with its
\* collision counter).
Path(stem, kind, n) == [stem |-> stem, kind |-> kind, n |-> n]
OutputPath(stem) == Path(stem, "output", 0)
TempPath(stem) == Path(stem, "temp", 0)
FinalPath(stem, n) == Path(stem, "final", n)
NoPath == Path("", "none", 0)
Paths ==
    {OutputPath(st) : st \in Stems} \cup {TempPath(st) : st \in Stems}
        \cup {FinalPath(st, n) : st \in Stems, n \in 0..MaxChats}

\* The multi-chat branch of main is not running.
PoolIdle ==
    /\ selected_chats = <<>>
    /\ mpc = "idle"
    /\ tpc = <<>>
    /\ final_path = <<>>
    /\ fs = [p \in Paths |-> 0]
    /\ results = <<>>
    /\ collected = {}
    /\ completed = 0
    /\ exports = <<>>
    /\ failed = <<>>

\* ------------------------------------------------------------------ helpers
InitialUrl == 1

\* payload.get("@odata.nextLink") of page p
NextLink(p) == IF p < Len(pages) THEN Some(p + 1) ELSE None

\* The record at position i of page p.
Item(p, i) == [page |-> p, pos |-> i, hit |-> pages[p][i]]

RECURSIVE Pow2(_)
Pow2(n) == IF n = 0 THEN 1 ELSE 2 * Pow2(n - 1)

Backoff_linear(a) == INITIAL_RETRY_DELAY * (a + 1)
\* INITIAL_RETRY_DELAY * (2 ** attempt)
Backoff(a) == INITIAL_RETRY_DELAY * Pow2(a)

WaitTime429_no_header(h, a) == Backoff(a)
\* wait_time of the 429 branch: `if retry_after:` is false for an absent
\* header and for the empty string; int() fails on a text that is no integer.
WaitTime429(h, a) ==
    IF h.kind \in {"absent", "empty"} THEN Backoff(a)
    ELSE IF h.kind = "int" THEN h.n
    ELSE Backoff(a)

NoError == [type |-> "", text |-> <<>>, at |-> ""]
GraphError(text, at) == [type |-> "GraphError", text |-> text, at |-> at]

\* GraphClient._format_error
format_error(r, b) ==
    IF b.shape \in {"envelope", "envelope_nocode"}
    THEN <<"Graph API error ", (IF b.code # "" THEN b.code ELSE IntText(r.status)), ": ", b.message>>
    ELSE IF b.shape = "nonjson" THEN <<"Graph API error ", IntText(r.status), ": ", b.text>>
    ELSE IF b.shape = "errstring" THEN <<"Graph API error ", IntText(r.status), ": ", b.err>>
    ELSE <<"Graph API error ", IntText(r.status), ": ", "None">>

\* The two raise statements after the for-loop of _request_with_retry.
AfterLoop(last) ==
    IF last # None
    THEN <<"Request failed after ", IntText(MAX_RETRIES), " attempts: ", last[1]>>
    ELSE <<"Request failed after ", IntText(MAX_RETRIES), " attempts">>

HasRetryLeft_always(a) == a < MAX_RETRIES
HasRetryLeft_short(a) == a < MAX_RETRIES - 2
\* `if attempt < MAX_RETRIES - 1` : another attempt follows this one
HasRetryLeft(a) == a < MAX_RETRIES - 1

IsServerError_from_400(s) == 400 <= s /\ s < 600
\* `500 <= resp.status_code < 600`
IsServerError(s) == 500 <= s /\ s < 600

\* `if max_items and count >= max_items`
MaxItemsReached(m, c) == m # None /\ m[1] # 0 /\ c >= m[1]

StopConditionHolds_ignored(given, item) == FALSE
\* `if stop_condition and stop_condition(item)`
StopConditionHolds(given, item) == given /\ item.hit

ParamsForNext_kept(p) == p
\* `params = None  # Only include params on first request.`
ParamsForNext(p) == None

\* --------------------------------------------------------------------- Init
PageValues == UNION {[1..k -> BOOLEAN] : k \in 0..MaxPageLen}
PageChains == UNION {[1..n -> PageValues] : n \in 1..MaxPages}
NoHit(chain) == \A p \in 1..Len(chain) : \A i \in 1..Len(chain[p]) : ~chain[p][i]

\* The state when _paginate is entered.
Entered ==
    /\ url = Some(InitialUrl)
    /\ params = Some("query")
    /\ count = 0
    /\ idx = 0
    /\ pc = "loop"
    /\ attempt = 0
    /\ last_exception = None
    /\ resp = NoResp
    /\ body = NoBody
    /\ hist = <<>>
    /\ sleeps = <<>>
    /\ requests = <<>>
    /\ yielded = <<>>
    /\ progressCalls = <<>>
    /\ error = NoError

\* Every chain of pages and combination of arguments, and a server that
\* answers at most one GET with something else than 200.
InitPages ==
    /\ pages \in PageChains
    /\ stop_condition \in BOOLEAN
    /\ (~stop_condition) => NoHit(pages)
    /\ max_items \in {None} \cup {Some(n) : n \in 0..MaxItems}
    /\ progress_callback \in BOOLEAN
    /\ faultsLeft = 1

\* A server that answers up to MaxFaults GETs with something else than 200,
\* over a chain of two pages of one record each.
InitFaults ==
    /\ pages = << <<FALSE>>, <<FALSE>> >>
    /\ stop_condition = FALSE
    /\ max_items = None
    /\ progress_callback = TRUE
    /\ faultsLeft = MaxFaults

Init ==
    /\ Entered
    /\ InitPages \/ InitFaults
    /\ ExportIdle
    /\ PoolIdle
    /\ CacheIdle
    /\ TransformIdle
    /\ NamingIdle
    /\ MainIdle

\* ------------------------------------------------------------------ actions
\* _paginate, `while url:` and the call of _request_with_retry (lines 103-104,
\* 36-38).
WhileUrl ==
    /\ pc = "loop"
    /\ IF url # None
       THEN /\ pc' = "request"
            /\ attempt' = 0
            /\ last_exception' = None
            /\ hist' = <<>>
            /\ sleeps' = <<>>
       ELSE /\ pc' = "done"
            /\ UNCHANGED <<attempt, last_exception, hist, sleeps>>
    /\ UNCHANGED <<argVars, faultsLeft, url, params, count, idx, resp, body, requests,
                   yielded, progressCalls, error>>

\* time.sleep(wait_time); continue
SleepAndContinue(wait_time) ==
    /\ sleeps' = Append(sleeps, wait_time)
    /\ attempt' = attempt + 1
    /\ pc' = "request"
    /\ UNCHANGED <<body, error>>

\* raise GraphError(...) out of _request_with_retry
RaiseFromRetry(text, b) ==
    /\ error' = GraphError(text, "_request_with_retry")
    /\ body' = b
    /\ pc' = "raised"
    /\ UNCHANGED <<sleeps, attempt>>

\* One iteration of the for-loop of _request_with_retry (lines 38-77), and the
\* statements after the loop when it was the last one (lines 79-82).
RequestAttempt ==
    /\ pc = "request"
    /\ \E o \in Outcomes :
         /\ (~IsOk(o)) => faultsLeft > 0
         /\ faultsLeft' = IF IsOk(o) THEN faultsLeft ELSE faultsLeft - 1
         /\ requests' = Append(requests, [url |-> url, params |-> params])
         /\ hist' = Append(hist, o)
         /\ IF o.kind = "exc"
            THEN /\ last_exception' = Some(o.msg)
                 /\ resp' = resp
                 /\ IF HasRetryLeft(attempt)
                    THEN SleepAndContinue(Backoff(attempt))
                    ELSE RaiseFromRetry(AfterLoop(last_exception'), NoBody)
            ELSE /\ resp' = o
                 /\ last_exception' = last_exception
                 /\ IF o.status = 429
                    THEN IF HasRetryLeft(attempt)
                         THEN SleepAndContinue(WaitTime429(o.retry_after, attempt))
                         ELSE \E b \in ErrorBodies : RaiseFromRetry(format_error(o, b), b)
                    ELSE IF IsServerError(o.status) /\ HasRetryLeft(attempt)
                         THEN SleepAndContinue(Backoff(attempt))
                         ELSE /\ pc' = "returned"
                              /\ UNCHANGED <<sleeps, attempt, body, error>>
    /\ UNCHANGED <<argVars, url, params, count, idx, yielded, progressCalls>>

\* _paginate after the call returned (lines 105-108).
PaginateResponse ==
    /\ pc = "returned"
    /\ params' = ParamsForNext(params)
    /\ IF resp.status >= 400
       THEN /\ \E b \in ErrorBodies :
                 /\ body' = b
                 /\ error' = GraphError(format_error(resp, b), "_paginate")
            /\ pc' = "raised"
            /\ UNCHANGED <<idx, attempt, last_exception, hist, sleeps>>
       ELSE /\ idx' = 1
            /\ pc' = "items"
            /\ attempt' = 0
            /\ last_exception' = None
            /\ hist' = <<>>
            /\ sleeps' = <<>>
            /\ UNCHANGED <<body, error>>
    /\ UNCHANGED <<argVars, faultsLeft, url, count, resp, requests, yielded, progressCalls>>

\* One iteration of `for item in payload.get("value", [])` (lines 109-115).
YieldItem ==
    /\ pc = "items"
    /\ idx <= Len(pages[url[1]])
    /\ LET item == Item(url[1], idx) IN
         /\ yielded' = Append(yielded, item)
         /\ count' = count + 1
         /\ IF StopConditionHolds(stop_condition, item)
            THEN pc' = "done" /\ idx' = idx
            ELSE IF MaxItemsReached(max_items, count')
                 THEN pc' = "done" /\ idx' = idx
                 ELSE pc' = "items" /\ idx' = idx + 1
    /\ UNCHANGED <<argVars, faultsLeft, url, params, attempt, last_exception, resp, body,
                   hist, sleeps, requests, progressCalls, error>>

\* The end of the for-loop: progress_callback and the next link (lines 117-120).
EndPage ==
    /\ pc = "items"
    /\ idx > Len(pages[url[1]])
    /\ progressCalls' = IF progress_callback THEN Append(progressCalls, count) ELSE progressCalls
    /\ url' = NextLink(url[1])
    /\ pc' = "loop"
    /\ UNCHANGED <<argVars, faultsLeft, params, count, idx, attempt, last_exception, resp,
                   body, hist, sleeps, requests, yielded, error>>

Next ==
    \/ WhileUrl /\ UNCHANGED outsideGraph
    \/ RequestAttempt /\ UNCHANGED outsideGraph
    \/ PaginateResponse /\ UNCHANGED outsideGraph
    \/ YieldItem /\ UNCHANGED outsideGraph
    \/ EndPage /\ UNCHANGED outsideGraph

Spec == Init /\ [][Next]_allVars

\* ------------------------------------------------- exporter: functions
\* The value _within_range compares with the window.
RangeValue(m) ==
    Or(Or(m.lastModifiedDateTime, m.createdDateTime), m.originalArrivalDateTime)

\* Comparing a datetime without offset with the aware start_dt raises
\* TypeError; the comparison is outside the try of _within_range.
within_range_raises(m) == RangeValue(m).kind = "naive"

within_range(m) ==
    LET v == RangeValue(m)
    IN  v.kind = "utc" /\ start_dt <= v.t /\ v.t <= end_dt

\* The value export_chat._stop_condition compares with start_dt.
StopValue(m) == Or(m.createdDateTime, m.lastModifiedDateTime)

export_stop_raises(m) == StopValue(m).kind = "naive"

export_stop_condition(m) == StopValue(m).kind = "utc" /\ StopValue(m).t < start_dt

\* The key of filtered_messages.sort; Absent stands for "".
SortValue(m) == Or(m.createdDateTime, m.lastModifiedDateTime)

\* The order of the key strings: "" first, ISO texts by instant (the text
\* without offset is a prefix of the text with "Z"), the rejected text last.
KeyRank(v) ==
    CASE v.kind = "absent" -> -1
      [] v.kind = "naive" -> 2 * v.t
      [] v.kind = "utc" -> 2 * v.t + 1
      [] OTHER -> 2 * (end_dt + 2)

\* list.sort is stable: m goes after every element whose key is not greater.
Insert(sorted, m) ==
    LET k == Cardinality({i \in 1..Len(sorted) :
                            KeyRank(SortValue(sorted[i])) <= KeyRank(SortValue(m))})
    IN  SubSeq(sorted, 1, k) \o <<m>> \o SubSeq(sorted, k + 1, Len(sorted))

RECURSIVE SortByKey(_)
SortByKey(s) ==
    IF s = <<>> THEN <<>>
    ELSE Insert(SortByKey(SubSeq(s, 1, Len(s) - 1)), s[Len(s)])

transform_message(m) ==
    [id |-> m.id,
     timestamp |-> Or(m.lastModifiedDateTime, m.createdDateTime),
     images |-> m.images,
     attachments |-> m.attachments]

UrlTuple(u, img) == [url |-> u, is_image |-> img]
TupleIsHttp(t) == StartsWithHttp(t.url)

\* The (url, is_image) pairs of one message: inline images, then attachments.
MessageUrls(m) ==
    SelectSeq([i \in 1..Len(m.images) |-> UrlTuple(m.images[i], TRUE)], TupleIsHttp)
        \o SelectSeq(m.attachments, TupleIsHttp)

RECURSIVE extract_attachment_urls(_)
extract_attachment_urls(msgs) ==
    IF msgs = <<>> THEN <<>>
    ELSE MessageUrls(Head(msgs)) \o extract_attachment_urls(Tail(msgs))

\* list(dict.fromkeys(url_tuples))
RECURSIVE Dedupe(_)
Dedupe(s) ==
    IF s = <<>> THEN <<>>
    ELSE LET front == Dedupe(SubSeq(s, 1, Len(s) - 1))
             last == s[Len(s)]
         IN  IF \E i \in 1..Len(front) : front[i] = last THEN front
             ELSE Append(front, last)

\* The base file name: the last path segment without extension, or
\* image_NNN / file_NNN when the path ends in "/".
BaseOf(t, i) ==
    IF t.url = UrlNamed THEN FileName("a", 0, 0, "")
    ELSE FileName(IF t.is_image THEN "image" ELSE "file", i, 0, "")

TempName(b) == FileName(b.base, b.idx, 0, "_temp")

ContentTypes == {"image/png", "application/pdf", "x-unknown/x", ""}

get_extension_from_mime(ct) ==
    CASE ct = "image/png" -> ".png"
      [] ct = "application/pdf" -> ".pdf"
      [] OTHER -> ".bin"

Extension(ct, img) ==
    IF ct # "" THEN get_extension_from_mime(ct)
    ELSE IF img THEN ".png" ELSE ".bin"

\* The while final_path.exists() loop.
RECURSIVE FinalName(_, _, _, _)
FinalName(b, e, c, files) ==
    IF FileName(b.base, b.idx, c, e) \notin files THEN FileName(b.base, b.idx, c, e)
    ELSE FinalName(b, e, c + 1, files)

\* What _download_attachment can do: write the file and return
\* (True, content_type), or return (False, None) after a non-200 status, an
\* exception of the request, or an exception of write_bytes that leaves a
\* partial file.
DownloadOutcomes ==
    {[ok |-> TRUE, content_type |-> ct, why |-> "200", temp |-> TRUE] : ct \in ContentTypes}
        \cup {[ok |-> FALSE, content_type |-> "", why |-> "status", temp |-> FALSE],
              [ok |-> FALSE, content_type |-> "", why |-> "request", temp |-> FALSE],
              [ok |-> FALSE, content_type |-> "", why |-> "write", temp |-> TRUE]}

\* The names _download_attachments binds before its progress lines run.
LocalNames ==
    {"client", "messages", "attachments_dir", "url_tuples", "unique_url_tuples",
     "url_mapping", "image_count", "file_count", "idx", "url", "is_image",
     "base_filename", "temp_path", "final_path"}

NameDefined_any(n) == TRUE
NameDefined(n) == n \in LocalNames

\* print(f"  [{idx}/{len(unique_urls)}] ...") evaluates the name unique_urls.
ProgressLineRaises == ~NameDefined("unique_urls")

OutputFormats == {"json", "csv", "markdown", "html", "xml"}

\* The normalised fmt of export_chat.
Fmt(f) == IF f \in {"jira", "jira-markdown", "markdown"} THEN "jira" ELSE f

\* url_mapping.get(src, src): how the writers show a reference.
Display(u, mapping) ==
    [url |-> u, local |-> mapping[u] # NoFile, file |-> mapping[u]]

Links(m) ==
    m.images \o [i \in 1..Len(m.attachments) |-> m.attachments[i].url]

\* What a writer puts in the output file for one message.
Rendered(m, mapping) ==
    [id |-> m.id,
     timestamp |-> m.timestamp,
     links |-> [i \in 1..Len(Links(m)) |-> Display(Links(m)[i], mapping)]]

\* ------------------------------------------------- exporter: actions
ExportRaise(name) ==
    /\ xpc' = "raised"
    /\ xerror' = name

\* export_chat up to the computation of output_path.
ExportStart ==
    /\ xpc = "start"
    /\ IF ~chat_has_id
       THEN /\ ExportRaise("ChatNotFoundError")
            /\ UNCHANGED dirs
       ELSE /\ dirs' = dirs \cup {"output_dir"}
            /\ xpc' = "fetch"
            /\ UNCHANGED xerror
    /\ UNCHANGED <<exportArgs, fetched, page_gets, raw_messages, messages,
                   unique_url_tuples, dl_idx,
                   url_mapping, attFiles, downloads, output>>

\* raw_messages = client.list_chat_messages(chat_id, stop_condition=...):
\* one page request that is answered with 200.  A page holds one message (the
\* only page of an empty chat holds none).  _paginate yields the message to
\* list(), then calls the stop-condition, which may raise; the call returns
\* after the message on which the condition holds or after the last page.
FetchMessages ==
    /\ xpc = "fetch"
    /\ page_gets' = page_gets + 1
    /\ IF chat_messages = <<>>
       THEN /\ raw_messages' = <<>>
            /\ xpc' = "filter"
            /\ UNCHANGED <<fetched, xerror>>
       ELSE LET item == chat_messages[Len(fetched) + 1]
            IN  /\ fetched' = Append(fetched, item)
                /\ IF export_stop_raises(item)
                   THEN /\ ExportRaise("TypeError")
                        /\ UNCHANGED raw_messages
                   ELSE IF \/ export_stop_condition(item)
                           \/ Len(fetched') = Len(chat_messages)
                        THEN /\ raw_messages' = fetched'
                             /\ xpc' = "filter"
                             /\ UNCHANGED xerror
                        ELSE UNCHANGED <<raw_messages, xpc, xerror>>
    /\ UNCHANGED <<exportArgs, messages, dirs, unique_url_tuples, dl_idx,
                   url_mapping, attFiles, downloads, output>>

\* export_chat has no handler around list_chat_messages: a GraphError leaves
\* export_chat, and the list under construction is dropped with the frame.
AfterFetchError_keep_partial(partial) == [pc |-> "filter", error |-> "", raw |-> partial]
AfterFetchError(partial) == [pc |-> "raised", error |-> "GraphError", raw |-> <<>>]

\* A page request of list_chat_messages ends in GraphError.
FetchFails ==
    /\ xpc = "fetch"
    /\ page_gets' = page_gets + 1
    /\ xpc' = AfterFetchError(fetched).pc
    /\ xerror' = AfterFetchError(fetched).error
    /\ raw_messages' = AfterFetchError(fetched).raw
    /\ UNCHANGED <<exportArgs, fetched, messages, dirs, unique_url_tuples,
                   dl_idx, url_mapping, attFiles, downloads, output>>

\* `if download_attachments and fmt in ("jira", "html", "docx") and messages`
AttachmentStepRuns_always(flag, fmt, msgs) == msgs # <<>>
AttachmentStepRuns(flag, fmt, msgs) ==
    flag /\ fmt \in {"jira", "html", "docx"} /\ msgs # <<>>

\* Filter, sort, transform, and the decision to download attachments.
FilterMessages ==
    /\ xpc = "filter"
    /\ IF \E i \in 1..Len(raw_messages) : within_range_raises(raw_messages[i])
       THEN /\ ExportRaise("TypeError")
            /\ UNCHANGED messages
       ELSE LET filtered_messages == SelectSeq(raw_messages, within_range)
                sorted == SortByKey(filtered_messages)
                transformed == [i \in 1..Len(sorted) |-> transform_message(sorted[i])]
            IN  /\ messages' = transformed
                /\ xpc' = IF AttachmentStepRuns(download_attachments,
                                                 Fmt(output_format), transformed)
                          THEN "enter_download" ELSE "write"
                /\ UNCHANGED xerror
    /\ UNCHANGED <<exportArgs, fetched, page_gets, raw_messages, dirs, unique_url_tuples, dl_idx,
                   url_mapping, attFiles, downloads, output>>

\* _download_attachments up to its for-loop.
EnterDownload ==
    /\ xpc = "enter_download"
    /\ dirs' = dirs \cup {"attachments_dir"}
    /\ unique_url_tuples' = Dedupe(extract_attachment_urls(messages))
    /\ dl_idx' = 1
    /\ xpc' = IF unique_url_tuples' = <<>> THEN "write" ELSE "download"
    /\ UNCHANGED <<exportArgs, fetched, page_gets, raw_messages, messages, url_mapping, attFiles,
                   downloads, output, xerror>>

\* One pass of the for-loop of _download_attachments.
DownloadOne ==
    /\ xpc = "download"
    /\ \E o \in DownloadOutcomes :
         LET t == unique_url_tuples[dl_idx]
             b == BaseOf(t, dl_idx)
             withTemp == IF o.temp THEN attFiles \cup {TempName(b)} ELSE attFiles
             final == FinalName(b, Extension(o.content_type, t.is_image), 0, withTemp)
         IN  /\ downloads' = Append(downloads, [url |-> t.url, ok |-> o.ok])
             /\ IF o.ok
                THEN /\ attFiles' = (withTemp \ {TempName(b)}) \cup {final}
                     /\ url_mapping' = [url_mapping EXCEPT ![t.url] = final]
                ELSE /\ attFiles' = withTemp \ {TempName(b)}
                     /\ UNCHANGED url_mapping
             /\ IF ProgressLineRaises
                THEN /\ ExportRaise("NameError")
                     /\ UNCHANGED dl_idx
                ELSE /\ dl_idx' = dl_idx + 1
                     /\ xpc' = IF dl_idx = Len(unique_url_tuples)
                               THEN "write" ELSE "download"
                     /\ UNCHANGED xerror
    /\ UNCHANGED <<exportArgs, fetched, page_gets, raw_messages, messages, dirs, unique_url_tuples,
                   output>>

\* The writers of export_chat, or ValueError for a format it does not know.
WriteOutput ==
    /\ xpc = "write"
    /\ IF Fmt(output_format) \in {"json", "csv", "jira", "html"}
       THEN /\ output' = Some([format |-> Fmt(output_format),
                               entries |-> [i \in 1..Len(messages) |->
                                               Rendered(messages[i], url_mapping)]])
            /\ xpc' = "done"
            /\ UNCHANGED xerror
       ELSE /\ ExportRaise("ValueError")
            /\ UNCHANGED output
    /\ UNCHANGED <<exportArgs, fetched, page_gets, raw_messages, messages, dirs, unique_url_tuples,
                   dl_idx, url_mapping, attFiles, downloads>>

\* ------------------------------------------------- exporter: specification
\* The Graph client is not paginating.
GraphIdle ==
    /\ pages = <<>>
    /\ faultsLeft = 0
    /\ stop_condition = FALSE
    /\ max_items = None
    /\ progress_callback = FALSE
    /\ url = None
    /\ params = None
    /\ count = 0
    /\ idx = 0
    /\ pc = "idle"
    /\ attempt = 0
    /\ last_exception = None
    /\ resp = NoResp
    /\ body = NoBody
    /\ hist = <<>>
    /\ sleeps = <<>>
    /\ requests = <<>>
    /\ yielded = <<>>
    /\ progressCalls = <<>>
    /\ error = NoError

Message(i, c, l, a, imgs, atts) ==
    [id |-> i, createdDateTime |-> c, lastModifiedDateTime |-> l,
     originalArrivalDateTime |-> a, images |-> imgs, attachments |-> atts]

\* The timestamp fields of a message; the arrival time is read only when the
\* other two are absent.
TimestampTriples ==
    {<<c, l, a>> \in TimestampValues \X TimestampValues \X TimestampValues :
        (c # Absent \/ l # Absent) => a = Absent}

\* The references of a message.
ImageLists == {<<>>, <<UrlNamed>>, <<UrlBare>>, <<UrlCid>>}
AttachmentLists ==
    {<<>>, <<UrlTuple(UrlNamed, FALSE)>>, <<UrlTuple(UrlNamed, TRUE)>>,
     <<UrlTuple(UrlBare, FALSE)>>}

\* export_chat is entered.
ExportEntered ==
    /\ xpc = "start"
    /\ fetched = <<>>
    /\ page_gets = 0
    /\ attFiles = earlier_files
    /\ raw_messages = <<>>
    /\ messages = <<>>
    /\ dirs = {}
    /\ unique_url_tuples = <<>>
    /\ dl_idx = 0
    /\ url_mapping = EmptyMapping
    /\ downloads = <<>>
    /\ output = None
    /\ xerror = ""

\* Every list of messages without references, with every combination of
\* timestamp fields, exported as JSON.
InitTimes ==
    /\ chat_has_id = TRUE
    /\ output_format = "json"
    /\ download_attachments = FALSE
    /\ earlier_files = {}
    /\ \E n \in 0..MaxMessages :
         \E ts \in [1..n -> TimestampTriples] :
            chat_messages =
                [i \in 1..n |-> Message(i, ts[i][1], ts[i][2], ts[i][3], <<>>, <<>>)]

\* Every list of messages inside the window with every combination of
\* references, every format and an attachments directory that is empty or
\* holds a file from an earlier export.
InitRefs ==
    /\ chat_has_id \in BOOLEAN
    /\ output_format \in OutputFormats
    /\ download_attachments \in BOOLEAN
    /\ earlier_files \in {{}, {FileName("a", 0, 0, ".png")}}
    /\ \E n \in 0..MaxMessages :
         \E imgs \in [1..n -> ImageLists] :
            \E atts \in [1..n -> AttachmentLists] :
               chat_messages =
                   [i \in 1..n |-> Message(i, Utc(start_dt), Utc(start_dt), Absent,
                                            imgs[i], atts[i])]

InitExport ==
    /\ GraphIdle
    /\ InitTimes \/ InitRefs
    /\ ExportEntered
    /\ PoolIdle
    /\ CacheIdle
    /\ TransformIdle
    /\ NamingIdle
    /\ MainIdle

NextExport ==
    \/ ExportStart /\ UNCHANGED outsideExport
    \/ FetchMessages /\ UNCHANGED outsideExport
    \/ FetchFails /\ UNCHANGED outsideExport
    \/ FilterMessages /\ UNCHANGED outsideExport
    \/ EnterDownload /\ UNCHANGED outsideExport
    \/ DownloadOne /\ UNCHANGED outsideExport
    \/ WriteOutput /\ UNCHANGED outsideExport

SpecExport == InitExport /\ [][NextExport]_allVars

\* ------------------------------------------------- worker pool: actions
\* A selected chat: its title, and whether its export has an image to download.
Chats == [title : Titles, has_image : BOOLEAN]

_chat_title(chat) == chat.title

StemOf(i) == normalise_filename(selected_chats[i].title)

\* The tuples export_single_chat returns.
Exported(i) == [title |-> _chat_title(selected_chats[i]),
                output_path |-> OutputPath(StemOf(i)), error |-> ""]
Failed(i, text) == [title |-> _chat_title(selected_chats[i]),
                    output_path |-> NoPath, error |-> text]

\* The tasks a worker thread is executing.
Running == {i \in 1..Len(tpc) : tpc[i] \notin {"none", "queued", "finished"}}

\* export_single_chat returns r.
Return(i, r) ==
    /\ tpc' = [tpc EXCEPT ![i] = "finished"]
    /\ results' = [results EXCEPT ![i] = Some(r)]

\* futures = {executor.submit(export_single_chat, chat): chat for chat in ...}
Submit ==
    /\ mpc = "submit"
    /\ tpc' = [i \in 1..Len(selected_chats) |-> "queued"]
    /\ mpc' = "collect"
    /\ UNCHANGED <<selected_chats, final_path, fs, results, collected, completed,
                   exports, failed>>

\* A free worker thread takes the oldest queued task.
StartTask(i) ==
    /\ tpc[i] = "queued"
    /\ \A j \in 1..(i - 1) : tpc[j] # "queued"
    /\ Cardinality(Running) < max_workers
    /\ tpc' = [tpc EXCEPT ![i] = "fetch"]
    /\ UNCHANGED <<selected_chats, mpc, final_path, fs, results, collected,
                   completed, exports, failed>>

\* export_chat up to the decision to download: the fetch raises GraphError,
\* or the messages are there.
TaskFetch(i) ==
    /\ tpc[i] = "fetch"
    /\ \/ Return(i, Failed(i, "GraphError"))
       \/ /\ tpc' = [tpc EXCEPT ![i] =
                        IF selected_chats[i].has_image THEN "download" ELSE "write"]
          /\ UNCHANGED results
    /\ UNCHANGED <<selected_chats, mpc, final_path, fs, collected, completed,
                   exports, failed>>

\* The while final_path.exists() loop.
FirstFree(stem) ==
    LET used == {n \in 0..MaxChats : fs[FinalPath(stem, n)] # 0}
    IN  FinalPath(stem, CHOOSE n \in 0..MaxChats :
                           n \notin used /\ \A k \in 0..(n - 1) : k \in used)

\* _download_attachment into temp_path and the choice of final_path; on
\* failure the temp file is removed if one exists and the progress line runs.
TaskDownload(i) ==
    /\ tpc[i] = "download"
    /\ \E ok \in BOOLEAN :
         IF ok
         THEN /\ fs' = [fs EXCEPT ![TempPath(StemOf(i))] = i]
              /\ final_path' = [final_path EXCEPT ![i] = FirstFree(StemOf(i))]
              /\ tpc' = [tpc EXCEPT ![i] = "rename"]
              /\ UNCHANGED results
         ELSE /\ fs' = [fs EXCEPT ![TempPath(StemOf(i))] = 0]
              /\ UNCHANGED final_path
              /\ IF ProgressLineRaises
                 THEN Return(i, Failed(i, "NameError"))
                 ELSE /\ tpc' = [tpc EXCEPT ![i] = "write"]
                      /\ UNCHANGED results
    /\ UNCHANGED <<selected_chats, mpc, collected, completed, exports, failed>>

\* temp_path.rename(final_path), then the progress line.
TaskRename(i) ==
    /\ tpc[i] = "rename"
    /\ IF fs[TempPath(StemOf(i))] = 0
       THEN /\ Return(i, Failed(i, "FileNotFoundError"))
            /\ UNCHANGED fs
       ELSE /\ fs' = [fs EXCEPT ![final_path[i]] = fs[TempPath(StemOf(i))],
                                ![TempPath(StemOf(i))] = 0]
            /\ IF ProgressLineRaises
               THEN Return(i, Failed(i, "NameError"))
               ELSE /\ tpc' = [tpc EXCEPT ![i] = "write"]
                    /\ UNCHANGED results
    /\ UNCHANGED <<selected_chats, mpc, final_path, collected, completed, exports,
                   failed>>

\* The writer of export_chat, and the return of export_single_chat.
TaskWrite(i) ==
    /\ tpc[i] = "write"
    /\ fs' = [fs EXCEPT ![OutputPath(StemOf(i))] = i]
    /\ Return(i, Exported(i))
    /\ UNCHANGED <<selected_chats, mpc, final_path, collected, completed, exports,
                   failed>>

\* One pass of the for-loop over as_completed(futures).
CollectOne(i) ==
    /\ mpc = "collect"
    /\ tpc[i] = "finished"
    /\ i \notin collected
    /\ collected' = collected \cup {i}
    /\ completed' = completed + 1
    /\ IF results[i][1].error # ""
       THEN /\ failed' = Append(failed, i)
            /\ UNCHANGED exports
       ELSE /\ exports' = Append(exports, i)
            /\ UNCHANGED failed
    /\ UNCHANGED <<selected_chats, mpc, tpc, final_path, fs, results>>

\* as_completed is exhausted and the executor is shut down.
LoopEnds ==
    /\ mpc = "collect"
    /\ tpc # <<>>
    /\ collected = 1..Len(selected_chats)
    /\ mpc' = "after"
    /\ UNCHANGED <<selected_chats, tpc, final_path, fs, results, collected,
                   completed, exports, failed>>

\* The lists of selected chats: two chats of any kind, and up to MaxChats
\* with further chats that have their own stem and nothing to download.
Filler == [title |-> "Ops", has_image |-> FALSE]
ChatLists ==
    {[i \in 1..n |-> IF i = 1 THEN a ELSE IF i = 2 THEN b ELSE Filler] :
        a \in Chats, b \in Chats, n \in 2..MaxChats}

\* main has more than one selected chat.
InitPool ==
    /\ GraphIdle
    /\ ExportIdle
    /\ CacheIdle
    /\ TransformIdle
    /\ NamingIdle
    /\ MainIdle
    /\ selected_chats \in ChatLists
    /\ mpc = "submit"
    /\ tpc = [i \in 1..Len(selected_chats) |-> "none"]
    /\ final_path = [i \in 1..Len(selected_chats) |-> NoPath]
    /\ fs = [p \in Paths |-> 0]
    /\ results = [i \in 1..Len(selected_chats) |-> None]
    /\ collected = {}
    /\ completed = 0
    /\ exports = <<>>
    /\ failed = <<>>

NextPool ==
    \/ Submit /\ UNCHANGED outsidePool
    \/ \E i \in 1..Len(tpc) : StartTask(i) /\ UNCHANGED outsidePool
    \/ \E i \in 1..Len(tpc) : TaskFetch(i) /\ UNCHANGED outsidePool
    \/ \E i \in 1..Len(tpc) : TaskDownload(i) /\ UNCHANGED outsidePool
    \/ \E i \in 1..Len(tpc) : TaskRename(i) /\ UNCHANGED outsidePool
    \/ \E i \in 1..Len(tpc) : TaskWrite(i) /\ UNCHANGED outsidePool
    \/ \E i \in 1..Len(tpc) : CollectOne(i) /\ UNCHANGED outsidePool
    \/ LoopEnds /\ UNCHANGED outsidePool

SpecPool == InitPool /\ [][NextPool]_allVars

\* ------------------------------------------------------------------- claims
IsTransient(o) == o.kind = "exc" \/ o.status = 429 \/ (500 <= o.status /\ o.status < 600)
IsClientError(o) == o.kind = "resp" /\ 400 <= o.status /\ o.status <= 499 /\ o.status # 429
Carries(text, part) == \E i \in 1..Len(text) : text[i] = part

\* C1: one call of _request_with_retry issues at most 4 GETs, whatever mix of
\* 429 responses, 5xx responses and transport exceptions it meets; when
\* another GET is about to be issued, at most 3 have been.
C1_AtMostFourAttempts ==
    /\ Len(hist) <= 4
    /\ (pc = "request" => Len(hist) <= 3)

\* C1 witness: a call that met an exception, a 429 and a 5xx and ended after
\* its 4th GET.
C1_Witness ==
    /\ Len(hist) = 4
    /\ hist[1].kind = "exc"
    /\ hist[2].status = 429
    /\ hist[3].status = 503
    /\ IsTransient(hist[4])
    /\ pc \in {"raised", "returned"}

\* C2: a 429 on attempt index a in 0..2 is followed by a sleep of exactly n
\* seconds when the Retry-After header parses as the integer n, and of exactly
\* 2 * 2^a seconds when the header is absent or not an integer; then the call
\* goes on to the next attempt.
C2_RateLimitSleep ==
    \A i \in 1..Len(hist) :
        (hist[i].kind = "resp" /\ hist[i].status = 429 /\ i <= 3) =>
            /\ Len(sleeps) >= i
            /\ sleeps[i] = (IF hist[i].retry_after.kind = "int"
                            THEN hist[i].retry_after.n
                            ELSE 2 * 2^(i - 1))
            /\ (Len(hist) > i \/ (pc = "request" /\ attempt = i))

\* C2 witness: three 429s, with a header that is no integer, with
\* `Retry-After: 5` and with no header.
C2_Witness ==
    /\ Len(hist) >= 3
    /\ hist[1] = ResponseOutcome(429, TextHeader)
    /\ hist[2] = ResponseOutcome(429, IntHeader(5))
    /\ hist[3] = ResponseOutcome(429, NoHeader)
    /\ sleeps = <<2, 5, 8>>

\* C3: for k in 1..3, when the first k attempts of a call are answered with 429
\* and `Retry-After: 5` and the next with 200, the call sleeps 5 seconds once
\* per 429 (the call is still going after each of them), returns the 200
\* response and raises no error.
C3_RetryAfterFiveThenOk ==
    \A k \in 1..3 :
        /\ ( /\ Len(hist) = k
             /\ \A i \in 1..k : hist[i] = ResponseOutcome(429, IntHeader(5)) ) =>
               /\ sleeps = [i \in 1..k |-> 5]
               /\ pc = "request"
               /\ error = NoError
        /\ ( /\ Len(hist) = k + 1
             /\ \A i \in 1..k : hist[i] = ResponseOutcome(429, IntHeader(5))
             /\ IsOk(hist[k + 1]) ) =>
               /\ sleeps = [i \in 1..k |-> 5]
               /\ pc = "returned"
               /\ resp.status = 200
               /\ error = NoError

\* C3 witness: three 429s with `Retry-After: 5`, then the 200 returned.
C3_Witness ==
    /\ Len(hist) = 4
    /\ \A i \in 1..3 : hist[i] = ResponseOutcome(429, IntHeader(5))
    /\ IsOk(hist[4])
    /\ pc = "returned"
    /\ sleeps = <<5, 5, 5>>

\* C4 (the claim as stated): a call of _request_with_retry either raises
\* GraphError or returns a response whose status is neither 429 nor 5xx; a
\* transient failure ends the call only after its 4th attempt.
C4_ReturnsNoTransientResponse ==
    /\ (pc = "returned" => ~IsTransient(resp))
    /\ (pc = "raised" => error.type = "GraphError")
    /\ (pc \in {"raised", "returned"} /\ IsTransient(hist[Len(hist)]) => Len(hist) = 4)

\* C5: a response with status in 400..499 other than 429 is the last one of its
\* call: it is returned on the attempt that received it, with no sleep after it
\* and no further GET, and the only step _paginate then takes raises GraphError.
C5_ClientErrorNotRetried ==
    /\ [](\A i \in 1..Len(hist) :
            IsClientError(hist[i]) =>
                /\ i = Len(hist)
                /\ Len(sleeps) = i - 1
                /\ resp = hist[i]
                /\ pc \in {"returned", "raised"}
                /\ (pc = "raised" => error.type = "GraphError" /\ error.at = "_paginate"))
    /\ [][(pc = "returned" /\ IsClientError(resp)) =>
            (pc' = "raised" /\ error'.type = "GraphError" /\ requests' = requests
             /\ sleeps' = sleeps /\ yielded' = yielded)]_vars

\* C5 witness: a 503, then a 404 that is handed to _paginate, which raised.
C5_Witness ==
    /\ Len(hist) = 2
    /\ hist[1].status = 503
    /\ hist[2].status = 404
    /\ sleeps = <<2>>
    /\ pc = "raised"
    /\ error.at = "_paginate"

\* C6: a transport exception on the 4th attempt makes the call raise
\* GraphError 'Request failed after 4 attempts: <message of that exception>',
\* whatever the first three attempts met; a transport exception on attempt
\* index a in 0..2 is followed by a sleep of 2 * 2^a seconds and a retry.
C6_TransportException ==
    /\ (Len(hist) = 4 /\ hist[4].kind = "exc") =>
            /\ pc = "raised"
            /\ error = [type |-> "GraphError",
                        text |-> <<"Request failed after ", "4", " attempts: ", hist[4].msg>>,
                        at |-> "_request_with_retry"]
    /\ \A i \in 1..Len(hist) :
            (hist[i].kind = "exc" /\ i <= 3) =>
                /\ Len(sleeps) >= i
                /\ sleeps[i] = 2 * 2^(i - 1)
                /\ (Len(hist) > i \/ (pc = "request" /\ attempt = i))

\* C6 witness: an exception, a 429, a 5xx, then another exception whose
\* message is the one reported.
C6_Witness ==
    /\ Len(hist) = 4
    /\ hist[1] = ExceptionOutcome("timed out")
    /\ hist[2].status = 429
    /\ hist[3].status = 503
    /\ hist[4] = ExceptionOutcome("connection reset")
    /\ pc = "raised"
    /\ Carries(error.text, "connection reset")

\* C7 (the claim as stated): when _paginate raises for a response with status
\* >= 400, no record of that page was yielded, and the error text carries the
\* upstream code and message when the JSON body has an error envelope, and the
\* raw status and the body text in every other case.
C7_ErrorTextCarriesBody ==
    (pc = "raised" /\ error.at = "_paginate") =>
        /\ error.type = "GraphError"
        /\ \A i \in 1..Len(yielded) : yielded[i].page < url[1]
        /\ IF body.shape \in {"envelope", "envelope_nocode"}
           THEN /\ Carries(error.text, body.message)
                /\ (body.code # "" => Carries(error.text, body.code))
           ELSE /\ Carries(error.text, IntText(resp.status))
                /\ Carries(error.text, body.text)

\* C8: the query parameters go only with GETs for the initial URL, and with
\* every one of those; a GET for a later page uses the link the page before
\* it supplied, with no parameters; pages are requested in chain order.
C8_ParamsOnlyOnFirstUrl ==
    \A i \in 1..Len(requests) :
        /\ requests[i].url # None
        /\ (requests[i].params # None => requests[i].url = <<1>>)
        /\ (requests[i].url = <<1>> => requests[i].params = <<"query">>)
        /\ (i = 1 => requests[i].url = <<1>>)
        /\ (i > 1 =>
              \/ requests[i].url = requests[i - 1].url
              \/ /\ requests[i].url = <<requests[i - 1].url[1] + 1>>
                 /\ requests[i].url[1] <= Len(pages)
                 /\ requests[i].params = None)

\* C8 witness: the first GET was retried with the parameters, and page 2 was
\* requested twice without them.
C8_Witness ==
    /\ Len(requests) = 4
    /\ requests[1] = [url |-> <<1>>, params |-> <<"query">>]
    /\ requests[2] = [url |-> <<1>>, params |-> <<"query">>]
    /\ requests[3] = [url |-> <<2>>, params |-> None]
    /\ requests[4] = [url |-> <<2>>, params |-> None]

\* The concatenation of the `value` arrays of pages 1..p.
RECURSIVE ItemsUpTo(_)
ItemsUpTo(p) ==
    IF p = 0 THEN <<>>
    ELSE ItemsUpTo(p - 1) \o [i \in 1..Len(pages[p]) |-> [page |-> p, pos |-> i, hit |-> pages[p][i]]]
AllItems == ItemsUpTo(Len(pages))
StoppedByHit == stop_condition /\ Len(yielded) > 0 /\ yielded[Len(yielded)].hit
StoppedByMax == max_items # None /\ max_items[1] # 0 /\ Len(yielded) >= max_items[1]

\* C9: records are yielded in list order; with a stop_condition the first
\* record it holds of is yielded and is the last one, and no GET for a later
\* page is issued; a run that no stop or limit ended ends only after the page
\* without a next link.
C9_StopConditionInclusive ==
    /\ Len(yielded) <= Len(AllItems)
    /\ yielded = SubSeq(AllItems, 1, Len(yielded))
    /\ stop_condition =>
          \A i \in 1..Len(yielded) :
              yielded[i].hit =>
                  /\ i = Len(yielded)
                  /\ pc = "done"
                  /\ \A j \in 1..Len(requests) : requests[j].url[1] <= yielded[i].page
    /\ (pc = "done" /\ ~StoppedByHit /\ ~StoppedByMax) =>
          /\ yielded = AllItems
          /\ url = None
          /\ requests[Len(requests)].url = <<Len(pages)>>

\* C9 witness: the stop-condition held of the first record of a two-record
\* page that has a next page.
C9_Witness ==
    /\ stop_condition
    /\ pc = "done"
    /\ Len(pages) = 2
    /\ pages[1] = <<TRUE, FALSE>>
    /\ Len(pages[2]) > 0
    /\ yielded = <<[page |-> 1, pos |-> 1, hit |-> TRUE]>>

Min(a, b) == IF a <= b THEN a ELSE b
FirstHit ==
    IF stop_condition /\ \E i \in 1..Len(AllItems) : AllItems[i].hit
    THEN CHOOSE i \in 1..Len(AllItems) :
            AllItems[i].hit /\ \A j \in 1..(i - 1) : ~AllItems[j].hit
    ELSE Len(AllItems)

\* C10 (the claim as stated): for every max_items n >= 0 that is not None, at
\* most n records are yielded, and a finished run yielded exactly the prefix
\* of the concatenated pages that ends at the first record the stop-condition
\* holds of or at the n-th record, whichever comes first.
C10_PrefixUpToLimit ==
    max_items # None =>
        /\ Len(yielded) <= max_items[1]
        /\ (pc = "done" => yielded = SubSeq(AllItems, 1, Min(FirstHit, max_items[1])))

\* Pages whose 200 response _paginate has received when the run is over.
PagesFetched == IF url = None THEN Len(pages) ELSE url[1]

\* C11 (the claim as stated): with a progress_callback, every call reports the
\* cumulative record count of a page boundary, and a finished run has called
\* it exactly once for every page it fetched, the last fetched page included
\* when the stop-condition or max_items ended the run on it.
C11_ProgressOncePerFetchedPage ==
    progress_callback =>
        /\ Len(progressCalls) <= Len(pages)
        /\ \A k \in 1..Len(progressCalls) : progressCalls[k] = Len(ItemsUpTo(k))
        /\ (pc = "done" =>
              /\ Len(progressCalls) = PagesFetched
              /\ progressCalls[Len(progressCalls)] = Len(yielded))

\* ------------------------------------------------- claims on export_chat
\* The resolved timestamp as the specification defines it: creation time,
\* else last-modified time, else arrival time.
ResolvedTimestamp(m) ==
    Or(Or(m.createdDateTime, m.lastModifiedDateTime), m.originalArrivalDateTime)

InWindow(v) == v.kind = "utc" /\ start_dt <= v.t /\ v.t <= end_dt

\* The fetched message an exported message was made from.
RawOf(e) == chat_messages[e.id]

ExportedIds == {messages[i].id : i \in 1..Len(messages)}

\* C12 (the claim as stated): in a finished export, window membership, sort
\* order and the written `timestamp` field all use the one resolved value
\* createdDateTime, else lastModifiedDateTime, else originalArrivalDateTime,
\* and a message lacking all three is excluded.
C12_OneResolvedTimestamp ==
    xpc = "done" =>
        /\ \A i \in 1..Len(raw_messages) :
              raw_messages[i].id \in ExportedIds
                  <=> InWindow(ResolvedTimestamp(raw_messages[i]))
        /\ \A i \in 1..Len(messages) :
              messages[i].timestamp = ResolvedTimestamp(RawOf(messages[i]))
        /\ \A i, j \in 1..Len(messages) :
              i < j => KeyRank(ResolvedTimestamp(RawOf(messages[i])))
                          <= KeyRank(ResolvedTimestamp(RawOf(messages[j])))

\* The premise of the early stop: every message has a creation time, and the
\* creation times do not increase along the API order.
CreatedNonIncreasing ==
    /\ \A i \in 1..Len(chat_messages) : chat_messages[i].createdDateTime.kind = "utc"
    /\ \A i, j \in 1..Len(chat_messages) :
          i < j => chat_messages[i].createdDateTime.t >= chat_messages[j].createdDateTime.t

\* What export_chat would export if every page were fetched and filtered.
FullFetchIds == {i \in 1..Len(chat_messages) : within_range(chat_messages[i])}

\* C13 (the claim as stated): when createdDateTime is non-increasing in API
\* order, a finished export with the early stop holds exactly the messages
\* the range filter accepts among all messages of the chat.
C13_EarlyStopLosesNothing ==
    (xpc = "done" /\ CreatedNonIncreasing) => ExportedIds = FullFetchIds

\* export_chat ended in the TypeError of the comparison in _within_range
\* (a TypeError of the fetch leaves raw_messages empty).
FilterRaised == xpc = "raised" /\ xerror = "TypeError" /\ raw_messages # <<>>

\* C14 (the claim as stated): a fetched message is in the output iff its
\* resolved timestamp parses and lies in [start_dt, end_dt], both bounds
\* included; messages without a timestamp or with one that does not parse
\* are excluded; and the filter never raises.
C14_WindowFilter ==
    /\ ~FilterRaised
    /\ xpc = "done" =>
          \A i \in 1..Len(raw_messages) :
              raw_messages[i].id \in ExportedIds
                  <=> InWindow(ResolvedTimestamp(raw_messages[i]))

\* C15 (the claim as stated): the `timestamp` values of the written messages
\* are non-decreasing in output order.
C15_TimestampsNonDecreasing ==
    xpc = "done" =>
        \A i, j \in 1..Len(messages) :
            (i < j /\ messages[i].timestamp.kind = "utc"
                   /\ messages[j].timestamp.kind = "utc")
                => messages[i].timestamp.t <= messages[j].timestamp.t

NoTempFile == \A f \in attFiles : f.extension # "_temp"

\* Every reference to URL u in the written output shows the remote URL.
RenderedRemote(u) ==
    output # None =>
        \A i \in 1..Len(output[1].entries) :
            \A k \in 1..Len(output[1].entries[i].links) :
                output[1].entries[i].links[k].url = u
                    => ~output[1].entries[i].links[k].local

\* C17 (the claim as stated): after a failed download the temporary file is
\* gone, the URL is not in the mapping, export_chat has not failed, and the
\* output it writes shows that attachment by its remote URL.
C17_FailedDownloadNotFatal ==
    \A i \in 1..Len(downloads) :
        ~downloads[i].ok =>
            /\ NoTempFile
            /\ url_mapping[downloads[i].url] = NoFile
            /\ xpc # "raised"
            /\ RenderedRemote(downloads[i].url)

\* Two exported messages reference the same inline image, the format takes
\* attachments, and the image has been downloaded.
C18_Case ==
    /\ download_attachments
    /\ Fmt(output_format) \in {"jira", "html"}
    /\ Len(messages) = 2
    /\ \A i \in 1..2 : messages[i].images = <<UrlNamed>> /\ messages[i].attachments = <<>>
    /\ downloads # <<>>
    /\ \A i \in 1..Len(downloads) : downloads[i].ok

\* C18 (the claim as stated): in that case export_chat completes, the
\* attachments directory holds one downloaded file and no temporary file,
\* the mapping has the URL, and both messages show the same local path.
C18_SharedInlineImage ==
    C18_Case =>
        /\ xpc # "raised"
        /\ Cardinality(attFiles \ earlier_files) = 1
        /\ NoTempFile
        /\ url_mapping[UrlNamed] \in attFiles
        /\ xpc = "done" =>
              /\ output[1].entries[1].links = output[1].entries[2].links
              /\ output[1].entries[1].links[1].local

\* ------------------------------------------------- claims on the worker pool
\* The task that takes a step.
Steps(i) == tpc'[i] # tpc[i]

\* C19 (the claim as stated): every export that returned a path ends with
\* its own content in its output file, and no export overwrites, renames or
\* deletes a file that holds the content of another export, also when two
\* chats have the same filename stem.
C19_NoFileCollision ==
    /\ [](mpc = "after" =>
            \A i \in 1..Len(selected_chats) :
                results[i][1].error = "" => fs[OutputPath(StemOf(i))] = i)
    /\ [][\A i \in 1..Len(tpc) :
            Steps(i) => \A p \in Paths : fs[p] \notin {0, i} => fs'[p] = fs[p]
         ]_allVars

Occurrences(s, i) == Cardinality({k \in 1..Len(s) : s[k] = i})

\* C20: at most 3 exports run at the same time; a task that ends has returned
\* a tuple, whatever exception export_chat raised; and when the loop over
\* as_completed is over, every selected chat has exactly one result, either
\* appended to exports with its path or reported as failed with its error,
\* and completed equals the number of selected chats.
C20_OneResultPerChat ==
    /\ Cardinality(Running) <= 3
    /\ \A i \in 1..Len(tpc) : tpc[i] = "finished" => results[i] # None
    /\ mpc = "after" =>
          /\ completed = Len(selected_chats)
          /\ \A i \in 1..Len(selected_chats) :
                /\ Occurrences(exports, i) + Occurrences(failed, i) = 1
                /\ Occurrences(exports, i) = 1 =>
                      /\ results[i][1].error = ""
                      /\ results[i][1].output_path = OutputPath(StemOf(i))
                /\ Occurrences(failed, i) = 1 =>
                      /\ results[i][1].error # ""
                      /\ results[i][1].output_path = NoPath

\* Four chats were selected, one export raised and a sibling was exported
\* after it, and the loop is over.
C20_Witness ==
    /\ mpc = "after"
    /\ Len(selected_chats) > 3
    /\ failed # <<>>
    /\ \E k \in 1..Len(exports) : exports[k] > failed[1]

\* ------------------------------------------------- further claims on the Graph client
\* The response carries a Retry-After value that int() accepts.
RetryAfterApplies(o) == o.kind = "resp" /\ o.status = 429 /\ o.retry_after.kind = "int"

RECURSIVE SumSeq(_)
SumSeq(s) == IF s = <<>> THEN 0 ELSE Head(s) + SumSeq(Tail(s))

\* C30: in one _request_with_retry call every sleep follows an attempt that
\* is not the 4th, so there are at most 3 sleeps; a sleep that takes no
\* Retry-After value lasts 2, 4 or 8 seconds after attempt 1, 2 or 3; without
\* any Retry-After value the sleeps add up to at most 14 seconds; and the call
\* never raises 'Request failed after 4 attempts' without an exception text.
C30_BackoffBudget ==
    /\ Len(sleeps) <= 3
    /\ Len(sleeps) <= Len(hist)
    /\ Len(hist) = 4 => Len(sleeps) = 3
    /\ \A k \in 1..Len(sleeps) :
          ~RetryAfterApplies(hist[k]) =>
              sleeps[k] = (CASE k = 1 -> 2 [] k = 2 -> 4 [] OTHER -> 8)
    /\ (\A k \in 1..Len(sleeps) : ~RetryAfterApplies(hist[k])) => SumSeq(sleeps) <= 14
    /\ (error.at = "_request_with_retry" /\ error.text[1] = "Request failed after ")
          => Len(error.text) = 4

\* Four attempts failed without any Retry-After value: three sleeps of 2, 4
\* and 8 seconds, and the call raised with the text of the last exception.
C30_Witness ==
    /\ pc = "raised"
    /\ error.at = "_request_with_retry"
    /\ sleeps = <<2, 4, 8>>
    /\ SumSeq(sleeps) = 14
    /\ hist[4].kind = "exc"
    /\ Len(error.text) = 4

\* ------------------------------------------------- further claims on export_chat
\* C22 (the claim as stated): when export_chat raises for a chat without id
\* or for an unsupported format, no page request has been issued and neither
\* an output file nor an attachments directory has been written.
C22_DataErrorsRaisedFirst ==
    xerror \in {"ChatNotFoundError", "ValueError"} =>
        /\ page_gets = 0
        /\ output = None
        /\ "attachments_dir" \notin dirs

\* C23: with download_attachments false, or with format json or csv, no
\* download request is made and no attachments directory is created; the
\* step runs only for the formats that render attachments.
C23_AttachmentStepSkipped ==
    /\ (~download_attachments \/ Fmt(output_format) \in {"json", "csv"}) =>
          /\ downloads = <<>>
          /\ "attachments_dir" \notin dirs
          /\ xpc \notin {"enter_download", "download"}
    /\ ("attachments_dir" \in dirs \/ downloads # <<>>) =>
          Fmt(output_format) \in {"jira", "html"}

\* A Markdown export with attachment downloading disabled has written its
\* output, whose messages reference an http URL.
C23_Witness ==
    /\ xpc = "done"
    /\ ~download_attachments
    /\ Fmt(output_format) = "jira"
    /\ extract_attachment_urls(messages) # <<>>
    /\ downloads = <<>>
    /\ dirs = {"output_dir"}

\* C29: when a page request of list_chat_messages ended in GraphError,
\* export_chat has raised it, holds no message list, and has written neither
\* an output file nor an attachments directory, whatever the pages before the
\* failure held.
C29_FetchErrorExportsNothing ==
    /\ (page_gets > Len(fetched) /\ chat_messages # <<>>) =>
          /\ xpc = "raised"
          /\ xerror = "GraphError"
    /\ xerror = "GraphError" =>
          /\ raw_messages = <<>>
          /\ messages = <<>>
          /\ output = None
          /\ "attachments_dir" \notin dirs
          /\ downloads = <<>>

\* The second page request failed after a first page that held a message
\* inside the window.
C29_Witness ==
    /\ xerror = "GraphError"
    /\ page_gets = 2
    /\ Len(fetched) = 1
    /\ within_range(fetched[1])

\* ------------------------------------------------- chat cache: actions
\* What a call returned or raised.
Returned(op, u, t, value) ==
    [op |-> op, user_id |-> u, at |-> t,
     kind |-> IF value.kind = "absent" THEN "none" ELSE "value",
     chats |-> value, error |-> ""]
Raised(op, u, t, name) ==
    [op |-> op, user_id |-> u, at |-> t, kind |-> "raise",
     chats |-> NoMember, error |-> name]

\* ChatCache.get(user_id) on the file f at time t.  The except clause
\* covers JSONDecodeError, KeyError and OSError; a decode error of the bytes,
\* `.get` on a list and the subtraction of a text from a float are not
\* among them.
get(f, u, t) ==
    IF f.kind = "missing" THEN Returned("get", u, t, NoMember)
    ELSE IF f.kind \in {"unreadable", "invalid"}
    THEN Returned("get", u, t, NoMember)
    ELSE IF f.kind = "not_utf8" THEN Raised("get", u, t, "UnicodeDecodeError")
    ELSE IF f.kind = "list" THEN Raised("get", u, t, "AttributeError")
    ELSE IF f.user_id # u THEN Returned("get", u, t, NoMember)
    ELSE IF f.timestamp.kind \in {"text", "list"}
    THEN Raised("get", u, t, "TypeError")
    ELSE LET cached_time == IF f.timestamp.kind = "absent" THEN 0
                            ELSE f.timestamp.n
             age == t - cached_time
             chats == IF f.chats.kind = "absent" THEN ListMember(<<>>)
                      ELSE f.chats
             truthy == chats.kind = "text" \/ chats.items # <<>>
         IN  IF age > CACHE_TTL_SECONDS THEN Returned("get", u, t, NoMember)
             ELSE IF truthy THEN Returned("get", u, t, chats)
             ELSE Returned("get", u, t, NoMember)

\* A call of get; when the file exists, opening or reading it can fail with
\* an OSError this once, which get answers like an unreadable file.
CacheGet(u, read_fails) ==
    /\ cache_ops < MaxCacheOps
    /\ cache_ops' = cache_ops + 1
    /\ IF read_fails /\ cache_file.kind # "missing"
       THEN /\ cache_result' = get(FileOfKind("unreadable"), u, now)
            /\ io_failed' = TRUE
       ELSE /\ cache_result' = get(cache_file, u, now)
            /\ UNCHANGED io_failed
    /\ UNCHANGED <<cache_file, now, last_set>>

\* ChatCache.set(user_id, chats): the file is opened for writing and the
\* entry dumped into it; an OSError of either is swallowed.  When open fails
\* the file is as it was; when the dump fails the file holds a truncated
\* text.
SetOutcomes == {"written", "open_fails", "dump_fails"}
CacheSet(u, c, outcome) ==
    /\ cache_ops < MaxCacheOps
    /\ cache_ops' = cache_ops + 1
    /\ cache_file' =
          CASE outcome = "written" ->
                  FileObject(u, NumberMember(now), ListMember(c))
            [] outcome = "open_fails" -> cache_file
            [] outcome = "dump_fails" -> FileOfKind("invalid")
    /\ io_failed' = (io_failed \/ outcome # "written")
    /\ last_set' = Some([user_id |-> u, chats |-> c, at |-> now])
    /\ cache_result' = Returned("set", u, now, NoMember)
    /\ UNCHANGED now

\* ChatCache.clear(): unlink when the file exists; an OSError is swallowed
\* and the file stays.
CacheClear(unlinked) ==
    /\ cache_ops < MaxCacheOps
    /\ cache_ops' = cache_ops + 1
    /\ cache_file' = IF unlinked THEN NoFileYet ELSE cache_file
    /\ io_failed' = (io_failed \/ (~unlinked /\ cache_file.kind # "missing"))
    /\ last_set' = None
    /\ cache_result' = Returned("clear", "", now, NoMember)
    /\ UNCHANGED now

\* Time passes between two calls.
Tick(d) ==
    /\ cache_ops < MaxCacheOps
    /\ cache_ops' = cache_ops + 1
    /\ now' = now + d
    /\ UNCHANGED <<cache_file, cache_result, last_set, io_failed>>

\* The cache file found by a process: anything at all.
FileContents ==
    {FileOfKind(k) : k \in {"missing", "unreadable", "not_utf8", "invalid", "list"}}
    \cup {FileObject(u, t, c) :
            u \in {"me", ""},
            t \in {NoMember, NumberMember(CACHE_TTL_SECONDS), TextMember},
            c \in {NoMember, TextMember, ListMember(<<>>), ListMember(<<"chat1">>)}}

\* A process that finds some cache file; a timestamp in it is one second
\* old.
InitCache ==
    /\ GraphIdle
    /\ ExportIdle
    /\ PoolIdle
    /\ TransformIdle
    /\ NamingIdle
    /\ MainIdle
    /\ cache_file \in FileContents
    /\ now = CACHE_TTL_SECONDS + 1
    /\ cache_result = NoCall
    /\ last_set = None
    /\ io_failed = FALSE
    /\ cache_ops = 0

\* A process that starts without a cache file.
InitCacheOps ==
    /\ GraphIdle
    /\ ExportIdle
    /\ PoolIdle
    /\ TransformIdle
    /\ NamingIdle
    /\ MainIdle
    /\ cache_file = NoFileYet
    /\ now = 0
    /\ cache_result = NoCall
    /\ last_set = None
    /\ io_failed = FALSE
    /\ cache_ops = 0

NextCache ==
    \/ (\E u \in UserIds, read_fails \in BOOLEAN : CacheGet(u, read_fails))
          /\ UNCHANGED outsideCache
    \/ (\E u \in UserIds, c \in ChatListValues, o \in SetOutcomes :
            CacheSet(u, c, o)) /\ UNCHANGED outsideCache
    \/ (\E unlinked \in BOOLEAN : CacheClear(unlinked)) /\ UNCHANGED outsideCache
    \/ (\E d \in TickSteps : Tick(d)) /\ UNCHANGED outsideCache

SpecCache == InitCache /\ [][NextCache]_allVars
SpecCacheOps == InitCacheOps /\ [][NextCache]_allVars

\* C25: ChatCache.get never raises, whatever the cache file holds: a missing
\* file, an unreadable file, invalid JSON, or JSON of the wrong shape (a
\* top-level list, a timestamp that is not a number) is a cache miss, and get
\* returns None.
WrongShape(f) ==
    \/ f.kind = "list"
    \/ f.kind = "object" /\ f.timestamp.kind \in {"text", "list"}
C25_GetNeverRaises ==
    cache_result.op = "get" =>
        /\ cache_result.kind # "raise"
        /\ (\/ cache_file.kind \in {"missing", "unreadable", "invalid"}
            \/ WrongShape(cache_file)) => cache_result.kind = "none"

\* The most recent set, not cleared since, was for the user of the last get,
\* with a non-empty list, at most 86400 seconds before that get.
LastSetServes ==
    /\ last_set # None
    /\ last_set[1].user_id = cache_result.user_id
    /\ last_set[1].chats # <<>>
    /\ cache_result.at - last_set[1].at <= 86400
transform_raises(m) == m.body = "null"
transform_result(m) ==
    [sender |-> IF m.from = "present" /\ m.user = "present" THEN "Alice" ELSE "",
     content |-> IF m.body = "present" THEN "text" ELSE "",
     attachments |-> CASE m.attachments = "absent" -> "empty"
                       [] m.attachments = "null" -> "null"
                       [] m.attachments = "present" -> "list"]

TransformRecord ==
    /\ rpc = "transform"
    /\ IF transform_raises(record)
       THEN /\ rpc' = "raised"
            /\ record_error' = "AttributeError"
            /\ UNCHANGED normalized
       ELSE /\ normalized' = Some(transform_result(record))
            /\ rpc' = IF AttachmentStepRuns(record_download, record_format, <<record>>)
                      THEN "extract" ELSE "render"
            /\ UNCHANGED record_error
    /\ UNCHANGED <<record, record_format, record_download, record_urls>>

\* _extract_attachment_urls([message]): `for att in attachments` over the
\* stored member; iterating None raises TypeError.
ExtractRecord ==
    /\ rpc = "extract"
    /\ IF normalized[1].attachments = "null"
       THEN /\ rpc' = "raised"
            /\ record_error' = "TypeError"
            /\ UNCHANGED record_urls
       ELSE /\ record_urls' = IF normalized[1].attachments = "list"
                              THEN <<"https://files/a.pdf">> ELSE <<>>
            /\ rpc' = "render"
            /\ UNCHANGED record_error
    /\ UNCHANGED <<record, record_format, record_download, normalized>>

\* The writer of the format: json.dumps and csv.DictWriter write None as
\* null and as an empty cell; the jira and html formatters read the sender
\* with `or "Unknown"`, pass the content through `if not content`, and walk
\* the attachments only under `if attachments:`.
RenderRecord ==
    /\ rpc = "render"
    /\ rpc' = "written"
    /\ UNCHANGED <<record, record_format, record_download, normalized,
                   record_urls, record_error>>

\* Any raw record, for any writer, with or without downloads.
InitTransform ==
    /\ GraphIdle
    /\ ExportIdle
    /\ PoolIdle
    /\ CacheIdle
    /\ NamingIdle
    /\ MainIdle
    /\ record \in [from : Members, user : Members, body : Members,
                   attachments : Members]
    /\ record_format \in RecordFormats
    /\ record_download \in BOOLEAN
    /\ rpc = "transform"
    /\ normalized = None
    /\ record_urls = <<>>
    /\ record_error = ""

NextTransform ==
    \/ TransformRecord /\ UNCHANGED outsideTransform
    \/ ExtractRecord /\ UNCHANGED outsideTransform
    \/ RenderRecord /\ UNCHANGED outsideTransform

SpecTransform == InitTransform /\ [][NextTransform]_allVars

\* C26: _transform_message never fails on a record whose `from`, `from.user`,
\* `body` or `attachments` member is absent or null; it substitutes empty
\* defaults, and its result passes through attachment extraction and
\* rendering without an exception.
C26_NestedDefaults ==
    /\ record_error = ""
    /\ normalized # None => normalized[1].attachments \in {"empty", "list"}

\* ------------------------------------------------- file names: functions
\* resolve_range(start_value, end_value): the window runs from the first
\* second of the start date to the last second of the end date; without an
\* end value the end date is the start date.
end_date(sv, ev) == IF ev = 0 THEN sv ELSE ev
resolve_range_raises(sv, ev) == end_date(sv, ev) < sv
resolve_range(sv, ev) ==
    <<Instant(sv, 0), Instant(end_date(sv, ev), 0) + SecondsPerDay - 1>>

\* _normalise_filename(identifier): strip white space, replace each run of
\* characters outside [a-zA-Z0-9_-] by one "_", lower the case, strip "_",
\* and fall back to "chat".
UnsafeChars == {" ", "&", "!", "*"}
Lower(c) ==
    CASE c = "T" -> "t" [] c = "S" -> "s" [] c = "Q" -> "q" [] c = "A" -> "a"
      [] OTHER -> c
RECURSIVE StripChars(_, _)
StripChars(cs, set) ==
    IF cs = <<>> THEN <<>>
    ELSE IF Head(cs) \in set THEN StripChars(Tail(cs), set)
    ELSE IF cs[Len(cs)] \in set THEN StripChars(SubSeq(cs, 1, Len(cs) - 1), set)
    ELSE cs
RECURSIVE ReplaceRuns(_, _)
ReplaceRuns(cs, inRun) ==
    IF cs = <<>> THEN <<>>
    ELSE IF Head(cs) \in UnsafeChars
    THEN (IF inRun THEN <<>> ELSE <<"_">>) \o ReplaceRuns(Tail(cs), TRUE)
    ELSE <<Head(cs)>> \o ReplaceRuns(Tail(cs), FALSE)
LowerChars(cs) == [i \in 1..Len(cs) |-> Lower(cs[i])]
NormaliseChars(cs) ==
    LET safe == ReplaceRuns(StripChars(cs, {" "}), FALSE)
        stem == StripChars(LowerChars(safe), {"_"})
    IN  IF stem = <<>> THEN <<"c", "h", "a", "t">> ELSE stem

\* The extension of the output file.
suffix(f) ==
    IF f \in {"jira", "jira-markdown", "markdown"} THEN "md"
    ELSE IF f = "html" THEN "html"
    ELSE IF f \in {"docx", "word"} THEN "docx"
    ELSE f

\* date_fragment: one date when the window starts and ends on the same day,
\* else both dates.
date_fragment_start(w) == <<DateOf(w[1])>>
date_fragment(w) ==
    IF DateOf(w[1]) = DateOf(w[2]) THEN <<DateOf(w[1])>>
    ELSE <<DateOf(w[1]), DateOf(w[2])>>

\* f"{filename_stem}_{date_fragment}.{suffix}"
FileNamed(stem, dates, ext) == [stem |-> stem, dates |-> dates, suffix |-> ext]

\* ------------------------------------------------- file names: actions
ResolveRange ==
    /\ npc = "resolve"
    /\ IF resolve_range_raises(start_value, end_value)
       THEN /\ npc' = "raised"
            /\ naming_error' = "DateParseError"
            /\ UNCHANGED window
       ELSE /\ window' = Some(resolve_range(start_value, end_value))
            /\ npc' = "name"
            /\ UNCHANGED naming_error
    /\ UNCHANGED <<identifier, start_value, end_value, format_value,
                   chat_instants, output_name, exported_instants>>

NameOutput ==
    /\ npc = "name"
    /\ output_name' = Some(FileNamed(NormaliseChars(identifier),
                                     date_fragment(window[1]),
                                     suffix(format_value)))
    /\ npc' = "filter"
    /\ UNCHANGED <<identifier, start_value, end_value, format_value,
                   chat_instants, window, exported_instants, naming_error>>

\* The messages whose timestamp lies in the window are written.
FilterAndWrite ==
    /\ npc = "filter"
    /\ exported_instants' =
          {t \in chat_instants : window[1][1] <= t /\ t <= window[1][2]}
    /\ npc' = "written"
    /\ UNCHANGED <<identifier, start_value, end_value, format_value,
                   chat_instants, window, output_name, naming_error>>

\* The instants a message can carry: midnight, 09:00:00 and 23:59:59 of
\* each day.
MessageInstants ==
    {Instant(d, sec) : d \in 1..MaxDay, sec \in {0, 9 * 60 * 60, SecondsPerDay - 1}}

InitNaming ==
    /\ GraphIdle
    /\ ExportIdle
    /\ PoolIdle
    /\ CacheIdle
    /\ TransformIdle
    /\ MainIdle
    /\ identifier \in ChatTitles
    /\ start_value \in 1..MaxDay
    /\ end_value \in 0..MaxDay
    /\ format_value \in FormatValues
    /\ chat_instants \in {c \in SUBSET MessageInstants : Cardinality(c) <= MaxMessages}
    /\ npc = "resolve"
    /\ window = None
    /\ output_name = None
    /\ exported_instants = {}
    /\ naming_error = ""

NextNaming ==
    \/ ResolveRange /\ UNCHANGED outsideNaming
    \/ NameOutput /\ UNCHANGED outsideNaming
    \/ FilterAndWrite /\ UNCHANGED outsideNaming

SpecNaming == InitNaming /\ [][NextNaming]_allVars

\* The scenario: a chat titled "Team Sync" with messages at 2025-01-01T09:00Z
\* and 2025-01-03T09:00Z, exported over the window 2025-01-01 to 2025-01-02.
TeamSyncScenario ==
    /\ identifier = <<"T", "e", "a", "m", " ", "S", "y", "n", "c">>
    /\ start_value = 1
    /\ end_value = 2
    /\ chat_instants = {32400, 2 * 86400 + 32400}
    /\ npc = "written"
Jan(d) == [year |-> 2025, month |-> 1, day |-> d]
ScenarioSuffix ==
    CASE format_value = "json" -> "json"
      [] format_value = "csv" -> "csv"
      [] format_value = "html" -> "html"
      [] OTHER -> "md"

\* C24 as stated: the scenario exports only the first message, to a file
\* named team_sync_2025-01-01.json (or .md, .html, .csv by format).
C24_TeamSyncFileName ==
    TeamSyncScenario =>
        /\ exported_instants = {32400}
        /\ output_name = Some([stem |-> <<"t", "e", "a", "m", "_", "s", "y", "n", "c">>,
                               dates |-> <<Jan(1)>>,
                               suffix |-> ScenarioSuffix])

\* C24, amended: the scenario exports only the first message, to a file
\* named team_sync_2025-01-01_2025-01-02.json (or .md, .html, .csv).
C24_TeamSyncRangeFileName ==
    TeamSyncScenario =>
        /\ exported_instants = {32400}
        /\ output_name = Some([stem |-> <<"t", "e", "a", "m", "_", "s", "y", "n", "c">>,
                               dates |-> <<Jan(1), Jan(2)>>,
                               suffix |-> ScenarioSuffix])
C24_Witness == TeamSyncScenario /\ format_value = "json"

\* ------------------------------------------------- main: actions
\* _chat_title(chat): the topic, else the id, else "<unknown chat>".
TitleOf(c) ==
    IF c.title # "" THEN c.title
    ELSE IF c.id # "" THEN c.id
    ELSE "<unknown chat>"

\* What export_chat(chat) can do: ChatNotFoundError for a chat without an
\* id; else GraphError when a request fails; else ValueError for a format it
\* does not know; else it returns.
ExportOutcomes(c) ==
    IF c.id = "" THEN {"ChatNotFoundError"}
    ELSE {"GraphError"} \cup (IF format_supported THEN {"ok"} ELSE {"ValueError"})

Line(kind, title, text) == [kind |-> kind, title |-> title, error |-> text]

\* The exceptions the single-chat branch catches: `except ValueError`.
SingleCatches == {"ValueError"}

\* choose_chat(chats, chat_name=...): the chats whose topic is the name.
Matches == {c \in loaded_chats : c.title = chat_name}

\* `if export_all: selected_chats = chats`
SelectAll ==
    /\ main_pc = "select"
    /\ mode = "all"
    /\ chosen' = loaded_chats
    /\ pending' = loaded_chats
    /\ main_pc' = "export"
    /\ UNCHANGED <<loaded_chats, mode, chat_name, format_supported, attempts,
                   echoed, unhandled, exit_code, reloads>>

\* The interactive menu: the user enters the number of a chat.
MenuPick(c) ==
    /\ main_pc = "select"
    /\ mode = "menu"
    /\ c \in loaded_chats
    /\ chosen' = {c}
    /\ pending' = {c}
    /\ main_pc' = "export"
    /\ UNCHANGED <<loaded_chats, mode, chat_name, format_supported, attempts,
                   echoed, unhandled, exit_code, reloads>>

\* The interactive menu: the user enters 'c'; main sees the marker, loads
\* the chats again and shows the menu again.
MenuRefresh(fresh) ==
    /\ main_pc = "select"
    /\ mode = "menu"
    /\ reloads < MaxReloads
    /\ reloads' = reloads + 1
    /\ loaded_chats' = fresh
    /\ UNCHANGED <<mode, chat_name, format_supported, main_pc, chosen, pending,
                   attempts, echoed, unhandled, exit_code>>

\* Either menu: the user enters 'q'; typer.Abort becomes typer.Exit(0).
MenuQuit ==
    /\ \/ main_pc = "select" /\ mode = "menu"
       \/ main_pc = "matches"
    /\ main_pc' = "exit"
    /\ exit_code' = 0
    /\ UNCHANGED <<loaded_chats, mode, chat_name, format_supported, chosen,
                   pending, attempts, echoed, unhandled, reloads>>

\* Search mode: choose_chat raises ChatNotFoundError without a match (exit
\* code 4), returns the chat of a single match, and a list of several.
Search ==
    /\ main_pc = "select"
    /\ mode = "search"
    /\ IF Matches = {}
       THEN /\ main_pc' = "exit"
            /\ exit_code' = 4
            /\ echoed' = echoed \cup {Line("error", "", "ChatNotFoundError")}
            /\ UNCHANGED <<chosen, pending>>
       ELSE IF Cardinality(Matches) = 1
       THEN /\ chosen' = Matches
            /\ pending' = Matches
            /\ main_pc' = "export"
            /\ UNCHANGED <<echoed, exit_code>>
       ELSE /\ main_pc' = "matches"
            /\ UNCHANGED <<chosen, pending, echoed, exit_code>>
    /\ UNCHANGED <<loaded_chats, mode, chat_name, format_supported, attempts,
                   unhandled, reloads>>

\* The menu of several matches: what select_chat_interactive returns, a
\* chat or the marker, becomes selected_chats.
MatchesReturn(c) ==
    /\ main_pc = "matches"
    /\ c \in Matches \cup {RefreshMarker}
    /\ chosen' = {c}
    /\ pending' = {c}
    /\ main_pc' = "export"
    /\ UNCHANGED <<loaded_chats, mode, chat_name, format_supported, attempts,
                   echoed, unhandled, exit_code, reloads>>

\* len(selected_chats) > 1: export_single_chat catches every Exception and
\* the loop reports "Failed: title - error".
ExportOfSeveral(c, outcome) ==
    /\ main_pc = "export"
    /\ Cardinality(chosen) > 1
    /\ c \in pending
    /\ outcome \in ExportOutcomes(c)
    /\ attempts' = attempts \cup {[chat |-> c, outcome |-> outcome]}
    /\ echoed' = echoed \cup
          {IF outcome = "ok" THEN Line("exported", TitleOf(c), "")
           ELSE Line("failed", TitleOf(c), outcome)}
    /\ pending' = pending \ {c}
    /\ main_pc' = IF pending' = {} THEN "done" ELSE "export"
    /\ UNCHANGED <<loaded_chats, mode, chat_name, format_supported, chosen,
                   unhandled, exit_code, reloads>>

\* One selected chat: "Exporting chat: title", then export_chat under
\* `except ValueError`, which prints the error and exits with code 5; any
\* other exception leaves main.
ExportOfOne(c, outcome) ==
    /\ main_pc = "export"
    /\ Cardinality(chosen) = 1
    /\ c \in pending
    /\ outcome \in ExportOutcomes(c)
    /\ attempts' = attempts \cup {[chat |-> c, outcome |-> outcome]}
    /\ pending' = {}
    /\ IF outcome = "ok"
       THEN /\ echoed' = echoed \cup {Line("exporting", TitleOf(c), ""),
                                      Line("exported", TitleOf(c), "")}
            /\ main_pc' = "done"
            /\ UNCHANGED <<unhandled, exit_code>>
       ELSE IF outcome \in SingleCatches
       THEN /\ echoed' = echoed \cup {Line("exporting", TitleOf(c), ""),
                                      Line("error", "", outcome)}
            /\ main_pc' = "exit"
            /\ exit_code' = 5
            /\ UNCHANGED unhandled
       ELSE /\ echoed' = echoed \cup {Line("exporting", TitleOf(c), "")}
            /\ main_pc' = "crashed"
            /\ unhandled' = outcome
            /\ UNCHANGED exit_code
    /\ UNCHANGED <<loaded_chats, mode, chat_name, format_supported, chosen,
                   reloads>>

\* The chat lists a load can give: any non-empty set of the server's chats.
ChatSets == (SUBSET ServerChats) \ {{}}

\* main after the chats were loaded and found non-empty.
InitMain ==
    /\ GraphIdle
    /\ ExportIdle
    /\ PoolIdle
    /\ CacheIdle
    /\ TransformIdle
    /\ NamingIdle
    /\ loaded_chats \in ChatSets
    /\ mode \in {"all", "search", "menu"}
    /\ chat_name \in (IF mode = "search" THEN ChatNames ELSE {""})
    /\ format_supported \in BOOLEAN
    /\ main_pc = "select"
    /\ chosen = {}
    /\ pending = {}
    /\ attempts = {}
    /\ echoed = {}
    /\ unhandled = ""
    /\ exit_code = -1
    /\ reloads = 0

NextMain ==
    \/ SelectAll /\ UNCHANGED outsideMain
    \/ (\E c \in ServerChats : MenuPick(c)) /\ UNCHANGED outsideMain
    \/ (\E fresh \in ChatSets : MenuRefresh(fresh)) /\ UNCHANGED outsideMain
    \/ MenuQuit /\ UNCHANGED outsideMain
    \/ Search /\ UNCHANGED outsideMain
    \/ (\E c \in ServerChats \cup {RefreshMarker} : MatchesReturn(c))
          /\ UNCHANGED outsideMain
    \/ (\E c \in ServerChats, o \in {"ok", "GraphError", "ChatNotFoundError", "ValueError"} :
            ExportOfSeveral(c, o)) /\ UNCHANGED outsideMain
    \/ (\E c \in ServerChats \cup {RefreshMarker},
           o \in {"ok", "GraphError", "ChatNotFoundError", "ValueError"} :
            ExportOfOne(c, o)) /\ UNCHANGED outsideMain

SpecMain == InitMain /\ [][NextMain]_allVars

\* C21: for every export run by main, of one chat or of several, a terminal
\* error of that export (GraphError, ChatNotFoundError, ValueError) is caught
\* and reported with the chat title and the error detail, and does not leave
\* main as an unhandled exception.
C21_ExportErrorsReported ==
    /\ unhandled = ""
    /\ \A a \in attempts :
          a.outcome # "ok" =>
              /\ \E l \in echoed : l.error = a.outcome
              /\ \E l \in echoed : l.title = TitleOf(a.chat)

\* C28: every chat main passes to export_chat is an element of the loaded
\* chat list; the refresh marker is never exported, in the plain menu and in
\* the menu of several matches.
C28_MarkerNeverExported ==
    \A a \in attempts : a.chat \in loaded_chats /\ a.chat.action = ""
====
